---- MODULE Spec2Model ----
(***************************************************************************)
(* Model of servidor.js (the persistent version, lines 106-290): the       *)
(* in-memory array celdas, the files celdas.json / celdas_temp.json, the   *)
(* POST /save-cell and GET /celdas handlers, saveCeldas, loadCeldas and    *)
(* the 10 s save timer, the shutdown handlers (SIGINT, SIGTERM, 'exit',    *)
(* uncaughtException).                                                     *)
(*                                                                         *)
(* The simulation engine of the specification (Grid Store, NPC Registry,   *)
(* spawn and movement ticks) has no code in servidor.js; it is modelled    *)
(* from the specification in its own section and its own specification     *)
(* SpecNPC, on its own variables grid, npcs and tick.                      *)
(*                                                                         *)
(* Node runs every callback to completion on one thread and saveCeldas     *)
(* uses only synchronous fs calls, so a handler is never interleaved with  *)
(* another handler.  The steps of saveCeldas are separate actions only so  *)
(* that a kill of the process (Crash) and a throwing fs call can happen    *)
(* between them; while pc # "idle" no other callback can start.            *)
(*                                                                         *)
(* JSON texts and JavaScript values share one shape [t, v]:                *)
(*   t = "arr"  an array of objects, v its elements                        *)
(*   t = "obj"  one object, v = <<its fields>>                             *)
(*   t = "null" the value null                                             *)
(*   t = "bad"  a text JSON.parse rejects (texts only)                     *)
(*   t = "torn" a partially written file (files only)                      *)
(*   t = "absent" no file                                                  *)
(* An object is [x, y, color].  In a text the fields are JSON literals     *)
(* ("absent" when the key is missing), in a value they are JavaScript      *)
(* values ("undefined" when the property is missing).  Numbers are written *)
(* "0", "1", strings "s:<chars>".                                          *)
(***************************************************************************)
EXTENDS Integers, Sequences, FiniteSets, TLC

VARIABLES
  celdas,     \* the array celdas (a JavaScript value)
  fs,         \* the content of celdas.json and celdas_temp.json
  req,        \* per connection: "free", "open", "head" (one chunk in), "all"
  body,       \* per request: the chunks appended to `body`
  pc,         \* "idle", a step of saveCeldas, "respond", "exiting", "exited"
              \* (the process has ended by process.exit) or "down" (killed)
  caller,     \* who called saveCeldas: "paint", "timer", "shutdown",
              \* "uncaught", "exit" or "none"
  cur,        \* the request whose 'end' handler is running
  resp,       \* the response written by the last step, if any
  log,        \* the console line written by the last step of saveCeldas
  acked,      \* history: the last 200 body, tracked while no write failed
  everFailed, \* history: some fs call of saveCeldas has thrown
  saveStart,  \* history: JSON.stringify(celdas) when saveCeldas was entered
  timer,      \* saveInterval is set (setInterval done, clearInterval not)
  shutStart,  \* history: JSON.stringify(celdas) when the shutdown began
  grid,       \* Grid Store of the simulation engine: coordinate -> color
  npcs,       \* NPC Registry: the sequence of NPCs [id, x, y]
  bootError,  \* history: this process found a celdas.json it could not parse
  tick        \* the last operation of the engine: "none", "paint", "spawn", "move"

\* The state of the simulation engine.
npcVars == <<grid, npcs, tick>>

vars == <<celdas, fs, req, body, pc, caller, cur, resp, log,
          acked, everFailed, saveStart, timer, shutStart, bootError, npcVars>>

\* ---------------------------------------------------------------- bounds
MaxCells == 2
MaxConns == 2
MaxCoord == 1      \* the engine's grid has the coordinates 0..MaxCoord
MaxGridCells == 3  \* cells the Grid Store holds at most
MaxNPCs == 2       \* NPCs spawned at most

Conns == 1..MaxConns

\* ------------------------------------------------------------ file names
DATA_FILE == "celdas.json"
TEMP_DATA_FILE == "celdas_temp.json"

\* ------------------------------------------------------- texts and values
Obj(x, y, c) == [x |-> x, y |-> y, color |-> c]
Arr(s) == [t |-> "arr", v |-> s]
One(o) == [t |-> "obj", v |-> <<o>>]
Null == [t |-> "null", v |-> <<>>]
Bad == [t |-> "bad", v |-> <<>>]
Torn == [t |-> "torn", v |-> <<>>]
Absent == [t |-> "absent", v |-> <<>>]

\* JSON.parse of one literal: a number literal beyond the double range
\* becomes Infinity; a missing key reads as undefined.
ParseLit(l) ==
  CASE l = "1e400" -> "Infinity"
    [] l = "absent" -> "undefined"
    [] OTHER -> l

\* JSON.stringify of one value: Infinity is written as null, an undefined
\* property is left out.
StringifyVal(v) ==
  CASE v = "Infinity" -> "null"
    [] v = "undefined" -> "absent"
    [] OTHER -> v

ParseObj(o) == Obj(ParseLit(o.x), ParseLit(o.y), ParseLit(o.color))
StringifyObj(o) == Obj(StringifyVal(o.x), StringifyVal(o.y), StringifyVal(o.color))

CanParse(text) == text.t \in {"arr", "obj", "null"}

JSONparse(text) ==
  [t |-> text.t, v |-> [i \in 1..Len(text.v) |-> ParseObj(text.v[i])]]

JSONstringify(val) ==
  [t |-> val.t, v |-> [i \in 1..Len(val.v) |-> StringifyObj(val.v[i])]]

\* ------------------------------------------------------- request payloads
Payloads == {"p00r", "p00w", "p10r", "pOdd", "pNoColor", "pNull", "pBad"}

PayloadText(p) ==
  CASE p = "p00r" -> One(Obj("0", "0", "s:red"))
    [] p = "p00w" -> One(Obj("0", "0", "s:white"))
    [] p = "p10r" -> One(Obj("1", "0", "s:red"))
    [] p = "pOdd" -> One(Obj("s:a", "1e400", "s:"))
    [] p = "pNoColor" -> One(Obj("0", "0", "absent"))
    [] p = "pNull" -> Null
    [] OTHER -> Bad

\* The body of the request on connection c arrives as two 'data' chunks,
\* head then tail.  The server does not look at a chunk before 'end', so
\* the payload p the chunks spell is drawn when 'end' reads the body.
Chunk(c, k) == [c |-> c, k |-> k]

\* body += chunk.toString(): the text is the concatenation of the chunks
\* received; only the head and tail of one request, in order, spell the
\* payload that request sent.
BodyText(chunks, c, p) ==
  IF chunks = <<Chunk(c, "head"), Chunk(c, "tail")>>
  THEN PayloadText(p)
  ELSE Bad

\* `let body = ''` is declared inside the request callback: one per request.
BodyOf(c) == c

\* The response written by the last step: its kind ("get", "paint" or
\* "none"), status, the payload it answers and its body b.
NoResp == [kind |-> "none", st |-> 0, p |-> "", b |-> Absent]

\* The body of a 400: { status: 'error', message: ... }.
ErrorBody == [t |-> "error", v |-> <<>>]

GetBody_painted(cel) ==
  IF cel.t = "arr"
  THEN JSONstringify([cel EXCEPT !.v = SelectSeq(cel.v, LAMBDA r : r.color # "s:white")])
  ELSE JSONstringify(cel)

\* GET /celdas: res.end(JSON.stringify(celdas)).
GetBody(cel) == JSONstringify(cel)

PaintBody_record(cel) ==
  IF cel.t = "arr" /\ Len(cel.v) >= 1
  THEN JSONstringify([cel EXCEPT !.v = <<cel.v[Len(cel.v)]>>])
  ELSE JSONstringify(cel)

\* POST /save-cell, success: res.end(JSON.stringify(celdas)).
PaintBody(cel) == JSONstringify(cel)
NoCur == [c |-> 0, p |-> ""]

\* ----------------------------------------------------------- loadCeldas
\* celdas after loadCeldas run with the files f and the array cel.
LoadCeldas(f, cel) ==
  IF f[DATA_FILE].t # "absent"
  THEN IF CanParse(f[DATA_FILE]) THEN JSONparse(f[DATA_FILE]) ELSE cel
  ELSE cel

\* The console line loadCeldas writes: "Loaded n celdas", the error of the
\* catch, or "does not exist".
LoadLog(f) ==
  IF f[DATA_FILE].t # "absent"
  THEN IF CanParse(f[DATA_FILE]) THEN "loaded" ELSE "load_error"
  ELSE "no_file"

\* ------------------------------------------------- the 'end' handler parts
\* data.x !== undefined && data.y !== undefined && data.color !== undefined
IsValidData(data) ==
  /\ data.v[1].x # "undefined"
  /\ data.v[1].y # "undefined"
  /\ data.v[1].color # "undefined"

\* Variant: celdas.unshift(data), the new record goes to the front.
Push_overwrite(cel, data) == [cel EXCEPT !.v = <<data.v[1]>>]

Push_unshift(cel, data) == [cel EXCEPT !.v = <<data.v[1]>> \o @]

\* celdas.push(data)
Push(cel, data) == [cel EXCEPT !.v = Append(@, data.v[1])]

\* What the 'end' handler does with the body text: "badjson" when
\* JSON.parse throws or a TypeError is thrown inside the try (data is null,
\* or celdas has no push), "invalid" when the validation fails, else "ok".
EndOutcome(text, cel) ==
  IF ~CanParse(text) THEN "badjson"
  ELSE LET data == JSONparse(text) IN
       IF data.t = "null" THEN "badjson"
       ELSE IF data.t = "obj" /\ IsValidData(data)
            THEN IF cel.t = "arr" THEN "ok" ELSE "badjson"
            ELSE "invalid"

\* Variant: the handler answers without calling saveCeldas().
AfterPush_noSave == "respond"

\* After the push the handler calls saveCeldas() and only then answers.
AfterPush == "save_open"

\* Variant: the push is done before the validation, so a payload that parses
\* to an object is stored even when it is then answered 400.
CeldasAfterReject_pushFirst(cel, text) ==
  IF text.t = "obj" THEN [cel EXCEPT !.v = Append(@, ParseObj(text.v[1]))] ELSE cel

\* celdas after a request that is answered 400: the array is not touched.
CeldasAfterReject(cel, text) == cel

\* ------------------------------------------------- simulation engine
\* The engine of the spec (Grid Store, Adjacency Resolver, NPC Registry and
\* the two ticks of the Simulation Clock); servidor.js has no part of it.
Coords == (0..MaxCoord) \X (0..MaxCoord)
NoCell == "none"
Colors == {"red", " White "}

\* Trimmed and lower-cased color.
Normalize(color) ==
  CASE color = " White " -> "white"
    [] color = "#FFF" -> "#fff"
    [] OTHER -> color

BlankColors == {"#fff", "#ffffff", "white"}

IsPainted(color) == Normalize(color) \notin BlankColors

\* The coordinates that hold a Cell.
Stored(g) == {c \in Coords : g[c] # NoCell}

AllPainted_all(g) == Stored(g)

\* The coordinates of the stored Cells classified as painted.
AllPainted(g) == {c \in Stored(g) : IsPainted(g[c])}

\* The four orthogonal offsets in the fixed order east, west, north, south;
\* a coordinate is kept iff a Cell exists there and is painted.
PaintedNeighbors(g, x, y) ==
  SelectSeq(<<<<x + 1, y>>, <<x - 1, y>>, <<x, y + 1>>, <<x, y - 1>>>>,
            LAMBDA c : c \in Coords /\ g[c] # NoCell /\ IsPainted(g[c]))

MoveTargets_stay(g, n) == {<<n.x, n.y>>}

\* Where an NPC may be after a movement tick: one of its painted neighbors,
\* its own position when it has none.
MoveTargets(g, n) ==
  LET ns == PaintedNeighbors(g, n.x, n.y) IN
  IF ns # <<>> THEN {ns[i] : i \in 1..Len(ns)} ELSE {<<n.x, n.y>>}

FreshId_const(ns) == 1

\* A freshly generated id, unique within the process lifetime.
FreshId(ns) == Len(ns) + 1

\* NPC Registry: SpawnAt and MoveTo.
SpawnAt(ns, c) == Append(ns, [id |-> FreshId(ns), x |-> c[1], y |-> c[2]])
MoveTo(n, c) == [n EXCEPT !.x = c[1], !.y = c[2]]

\* ApplyCellPaint(x, y, color): upsert into the Grid Store.
ApplyCellPaint(c, color) ==
  /\ (grid[c] # NoCell \/ Cardinality(Stored(grid)) < MaxGridCells)
  /\ grid' = [grid EXCEPT ![c] = color]
  /\ tick' = "paint"
  /\ UNCHANGED <<celdas, fs, req, body, pc, caller, cur, resp, log,
                 acked, everFailed, saveStart, timer, shutStart, npcs, bootError>>

\* Spawn action: no-op without painted cells, else one NPC on a painted
\* cell chosen at random.
RunSpawnTick ==
  /\ Len(npcs) < MaxNPCs
  /\ IF AllPainted(grid) = {}
     THEN npcs' = npcs
     ELSE \E c \in AllPainted(grid) : npcs' = SpawnAt(npcs, c)
  /\ tick' = "spawn"
  /\ UNCHANGED <<celdas, fs, req, body, pc, caller, cur, resp, log,
                 acked, everFailed, saveStart, timer, shutStart, grid, bootError>>

\* Movement action: every NPC of the snapshot moves to one of its painted
\* neighbors chosen at random, or stays when it has none.
RunMovementTick ==
  /\ \E f \in [1..Len(npcs) -> UNION {MoveTargets(grid, npcs[i]) : i \in 1..Len(npcs)}] :
       /\ \A i \in 1..Len(npcs) : f[i] \in MoveTargets(grid, npcs[i])
       /\ npcs' = [i \in 1..Len(npcs) |-> MoveTo(npcs[i], f[i])]
  /\ tick' = "move"
  /\ UNCHANGED <<celdas, fs, req, body, pc, caller, cur, resp, log,
                 acked, everFailed, saveStart, timer, shutStart, grid, bootError>>

\* ---------------------------------------------------------------- Init
\* What celdas.json may hold when the process is first started.
InitFiles ==
  { Absent, Bad, One(Obj("absent", "absent", "absent")),
    Arr(<<Obj("1", "1", "absent")>>) }

Init ==
  /\ \E d \in InitFiles :
       /\ fs = [f \in {DATA_FILE, TEMP_DATA_FILE} |-> IF f = DATA_FILE THEN d ELSE Absent]
       /\ celdas = LoadCeldas([f \in {DATA_FILE, TEMP_DATA_FILE} |-> d], Arr(<<>>))
       /\ log = LoadLog([f \in {DATA_FILE, TEMP_DATA_FILE} |-> d])
       /\ bootError = (LoadLog([f \in {DATA_FILE, TEMP_DATA_FILE} |-> d]) = "load_error")
  /\ req = [c \in Conns |-> "free"]
  /\ body = [c \in Conns |-> <<>>]
  /\ pc = "idle"
  /\ caller = "none"
  /\ cur = NoCur
  /\ resp = NoResp
  /\ acked = Arr(<<>>)
  /\ everFailed = FALSE
  /\ saveStart = Absent
  /\ timer = TRUE
  /\ shutStart = Absent
  /\ grid = [c \in Coords |-> NoCell]
  /\ npcs = <<>>
  /\ tick = "none"

\* ------------------------------------------------------------- requests
\* The request callback runs for POST /save-cell: body = ''.
Connect(c) ==
  /\ pc = "idle"
  /\ req[c] = "free"
  /\ req' = [req EXCEPT ![c] = "open"]
  /\ body' = [body EXCEPT ![BodyOf(c)] = <<>>]
  /\ resp' = NoResp /\ log' = ""
  /\ UNCHANGED <<celdas, fs, pc, caller, cur, acked, everFailed, saveStart, timer, shutStart, grid, npcs, tick, bootError>>

\* A 'data' event: body += chunk.
ReqData(c) ==
  /\ pc = "idle"
  /\ req[c] \in {"open", "head"}
  /\ LET k == IF req[c] = "open" THEN "head" ELSE "tail" IN
       /\ req' = [req EXCEPT ![c] = IF k = "head" THEN "head" ELSE "all"]
       /\ body' = [body EXCEPT ![BodyOf(c)] = Append(@, Chunk(c, k))]
  /\ resp' = NoResp /\ log' = ""
  /\ UNCHANGED <<celdas, fs, pc, caller, cur, acked, everFailed, saveStart, timer, shutStart, grid, npcs, tick, bootError>>

\* The 'end' event of a request that sent payload p: parse, validate, push,
\* then saveCeldas() is entered; a rejected request is answered 400 at once.
ReqEnd(c, p) ==
  /\ pc = "idle"
  /\ req[c] = "all"
  /\ LET text == BodyText(body[BodyOf(c)], c, p)
         out == EndOutcome(text, celdas)
     IN IF out = "ok"
        THEN /\ Len(celdas.v) < MaxCells
             /\ celdas' = Push(celdas, JSONparse(text))
             /\ pc' = AfterPush /\ caller' = "paint" /\ cur' = [c |-> c, p |-> p]
             /\ saveStart' = JSONstringify(celdas')
             /\ resp' = NoResp
             /\ UNCHANGED req
        ELSE /\ celdas' = CeldasAfterReject(celdas, text)
             /\ resp' = [kind |-> "paint", st |-> 400, p |-> p, b |-> ErrorBody]
             /\ req' = [req EXCEPT ![c] = "free"]
             /\ UNCHANGED <<pc, caller, cur, saveStart, timer, shutStart, grid, npcs, tick, bootError>>
  /\ log' = ""
  /\ UNCHANGED <<fs, body, acked, everFailed, timer, shutStart, grid, npcs, tick, bootError>>

\* GET /celdas: res.end(JSON.stringify(celdas)).
GetCells ==
  /\ pc = "idle"
  /\ resp' = [kind |-> "get", st |-> 200, p |-> "", b |-> GetBody(celdas)]
  /\ log' = ""
  /\ UNCHANGED <<celdas, fs, req, body, pc, caller, cur, acked, everFailed, saveStart, timer, shutStart, grid, npcs, tick, bootError>>

\* setInterval(saveCeldas, 10000) fires.
TimerFire ==
  /\ pc = "idle"
  /\ timer
  /\ pc' = "save_open" /\ caller' = "timer"
  /\ saveStart' = JSONstringify(celdas)
  /\ resp' = NoResp /\ log' = ""
  /\ UNCHANGED <<celdas, fs, req, body, cur, acked, everFailed, timer, shutStart, grid, npcs, tick, bootError>>

\* ------------------------------------------------------------ saveCeldas
\* Variant: the text is written straight into celdas.json.
WriteTarget_direct == DATA_FILE

\* The file fs.writeFileSync writes to.
WriteTarget == TEMP_DATA_FILE

\* Where control goes when saveCeldas returns: to the response of the paint
\* handler; from gracefulShutdown and the uncaughtException handler to
\* process.exit, whose 'exit' handler calls saveCeldas again; from the 'exit'
\* handler to the end of the process; from the timer to the event loop.
AfterSave ==
  CASE caller = "paint" -> "respond"
    [] caller \in {"shutdown", "uncaught"} -> "save_open"
    [] caller = "exit" -> "exiting"
    [] OTHER -> "idle"

\* Who is the caller of saveCeldas after it returned.
CallerAfterSave ==
  CASE caller = "paint" -> "paint"
    [] caller \in {"shutdown", "uncaught"} -> "exit"
    [] OTHER -> "none"

\* history: the 'exit' handler enters saveCeldas as soon as the save of
\* gracefulShutdown or of the uncaughtException handler has returned.
SaveStartAfterSave ==
  IF caller \in {"shutdown", "uncaught"} THEN JSONstringify(celdas) ELSE Absent

\* Variant: the catch of saveCeldas ends the process (process.exit(1)).
AfterCatch_exit == "down"

\* The catch of saveCeldas only logs: saveCeldas returns to its caller.
AfterCatch == AfterSave

SaveText_emptyFile(cel) ==
  IF cel.t = "arr" /\ cel.v = <<>> THEN Bad ELSE JSONstringify(cel)

\* The text saveCeldas writes: JSON.stringify(celdas, null, 2).
SaveText(cel) == JSONstringify(cel)

\* fs.writeFileSync opens the target, truncating it.
SaveOpen ==
  /\ pc = "save_open"
  /\ fs' = [fs EXCEPT ![WriteTarget] = Torn]
  /\ pc' = "save_write"
  /\ resp' = NoResp /\ log' = ""
  /\ UNCHANGED <<celdas, req, body, caller, cur, acked, everFailed, saveStart, timer, shutStart, grid, npcs, tick, bootError>>

\* fs.writeFileSync writes JSON.stringify(celdas, null, 2) and closes.
SaveWrite ==
  /\ pc = "save_write"
  /\ fs' = [fs EXCEPT ![WriteTarget] = SaveText(celdas)]
  /\ pc' = "save_rename"
  /\ resp' = NoResp /\ log' = ""
  /\ UNCHANGED <<celdas, req, body, caller, cur, acked, everFailed, saveStart, timer, shutStart, grid, npcs, tick, bootError>>

\* fs.writeFileSync throws (before or after truncating): the catch logs.
SaveWriteFail ==
  /\ pc \in {"save_open", "save_write"}
  /\ pc' = AfterCatch
  /\ caller' = CallerAfterSave
  /\ saveStart' = SaveStartAfterSave
  /\ everFailed' = TRUE
  /\ acked' = Arr(<<>>)
  /\ log' = "save_error"
  /\ resp' = NoResp
  /\ UNCHANGED <<celdas, fs, req, body, cur, timer, shutStart, grid, npcs, tick, bootError>>

\* fs.renameSync(TEMP_DATA_FILE, DATA_FILE) succeeds.
SaveRename ==
  /\ pc = "save_rename"
  /\ fs[TEMP_DATA_FILE].t # "absent"
  /\ fs' = [fs EXCEPT ![DATA_FILE] = fs[TEMP_DATA_FILE], ![TEMP_DATA_FILE] = Absent]
  /\ pc' = AfterSave
  /\ caller' = CallerAfterSave
  /\ saveStart' = SaveStartAfterSave
  /\ log' = "saved"
  /\ resp' = NoResp
  /\ UNCHANGED <<celdas, req, body, cur, acked, everFailed, timer, shutStart, grid, npcs, tick, bootError>>

\* fs.renameSync throws: the catch logs; the temporary file stays behind.
SaveRenameFail ==
  /\ pc = "save_rename"
  /\ pc' = AfterCatch
  /\ caller' = CallerAfterSave
  /\ saveStart' = SaveStartAfterSave
  /\ everFailed' = TRUE
  /\ acked' = Arr(<<>>)
  /\ log' = "save_error"
  /\ resp' = NoResp
  /\ UNCHANGED <<celdas, fs, req, body, cur, timer, shutStart, grid, npcs, tick, bootError>>

\* res.writeHead(200); res.end(JSON.stringify(celdas)).
Respond ==
  /\ pc = "respond"
  /\ resp' = [kind |-> "paint", st |-> 200, p |-> cur.p, b |-> PaintBody(celdas)]
  /\ acked' = IF everFailed THEN acked ELSE JSONstringify(celdas)
  /\ req' = [req EXCEPT ![cur.c] = "free"]
  /\ pc' = "idle" /\ caller' = "none" /\ cur' = NoCur
  /\ log' = ""
  /\ UNCHANGED <<celdas, fs, body, everFailed, saveStart, timer, shutStart, grid, npcs, tick, bootError>>

\* ------------------------------------------------------ crash and restart
\* The process is killed (no handler runs): memory and connections are lost.
Crash ==
  /\ pc \notin {"down", "exited"}
  /\ pc' = "down" /\ caller' = "none" /\ cur' = NoCur
  /\ celdas' = Arr(<<>>)
  /\ req' = [c \in Conns |-> "free"]
  /\ body' = [c \in Conns |-> <<>>]
  /\ saveStart' = Absent
  /\ timer' = FALSE /\ shutStart' = Absent
  /\ resp' = NoResp /\ log' = ""
  /\ bootError' = FALSE
  /\ UNCHANGED <<fs, acked, everFailed, grid, npcs, tick>>

\* A new process starts: let celdas = []; loadCeldas().
Start ==
  /\ pc \in {"down", "exited"}
  /\ celdas' = LoadCeldas(fs, Arr(<<>>))
  /\ pc' = "idle"
  /\ timer' = TRUE /\ shutStart' = Absent
  /\ resp' = NoResp /\ log' = LoadLog(fs)
  /\ bootError' = (LoadLog(fs) = "load_error")
  /\ UNCHANGED <<fs, req, body, caller, cur, acked, everFailed, saveStart, grid, npcs, tick>>

\* ------------------------------------------------------------- shutdown
TimerAfterClear_keep == TRUE

\* clearInterval(saveInterval) in gracefulShutdown.
TimerAfterClear == FALSE

\* SIGINT or SIGTERM: gracefulShutdown clears the interval and calls
\* saveCeldas(); process.exit() follows when it returns.
Shutdown ==
  /\ pc = "idle"
  /\ timer' = TimerAfterClear
  /\ pc' = "save_open" /\ caller' = "shutdown"
  /\ saveStart' = JSONstringify(celdas)
  /\ shutStart' = JSONstringify(celdas)
  /\ resp' = NoResp /\ log' = ""
  /\ UNCHANGED <<celdas, fs, req, body, cur, acked, everFailed, grid, npcs, tick, bootError>>

\* A callback outside the handlers modelled here throws: the
\* uncaughtException handler calls saveCeldas(), then process.exit(1).
Uncaught ==
  /\ pc = "idle"
  /\ pc' = "save_open" /\ caller' = "uncaught"
  /\ saveStart' = JSONstringify(celdas)
  /\ shutStart' = JSONstringify(celdas)
  /\ resp' = NoResp /\ log' = ""
  /\ UNCHANGED <<celdas, fs, req, body, cur, acked, everFailed, timer, grid, npcs, tick, bootError>>

\* The 'exit' handler has returned: the process ends, its memory, timer and
\* connections are gone.
ProcessExit ==
  /\ pc = "exiting"
  /\ pc' = "exited" /\ caller' = "none" /\ cur' = NoCur
  /\ celdas' = Arr(<<>>)
  /\ req' = [c \in Conns |-> "free"]
  /\ body' = [c \in Conns |-> <<>>]
  /\ timer' = FALSE
  /\ resp' = NoResp /\ log' = ""
  /\ bootError' = FALSE
  /\ UNCHANGED <<fs, acked, everFailed, saveStart, shutStart, grid, npcs, tick>>

Next ==
  \/ \E c \in Conns : Connect(c)
  \/ \E c \in Conns : ReqData(c)
  \/ \E c \in Conns, p \in Payloads : ReqEnd(c, p)
  \/ GetCells
  \/ TimerFire
  \/ SaveOpen
  \/ SaveWrite
  \/ SaveWriteFail
  \/ SaveRename
  \/ SaveRenameFail
  \/ Respond
  \/ Crash
  \/ Start
  \/ Shutdown
  \/ Uncaught
  \/ ProcessExit

Spec == Init /\ [][Next]_vars

\* The same program with one client connection: handlers run one at a time,
\* so what reaches celdas and the files is the same as with more clients.
NextDurable ==
  \/ Connect(1)
  \/ ReqData(1)
  \/ \E p \in Payloads : ReqEnd(1, p)
  \/ GetCells
  \/ TimerFire
  \/ SaveOpen
  \/ SaveWrite
  \/ SaveWriteFail
  \/ SaveRename
  \/ SaveRenameFail
  \/ Respond
  \/ Crash
  \/ Start

SpecDurable == Init /\ [][NextDurable]_vars

\* The same program with every client connection, a disk that does not fail
\* and a process that is not killed.
NextConc ==
  \/ \E c \in Conns : Connect(c)
  \/ \E c \in Conns : ReqData(c)
  \/ \E c \in Conns, p \in Payloads : ReqEnd(c, p)
  \/ GetCells
  \/ TimerFire
  \/ SaveOpen
  \/ SaveWrite
  \/ SaveRename
  \/ Respond

SpecConc == Init /\ [][NextConc]_vars

\* The same program with one client connection, a disk that may fail, and
\* the ways the process ends itself (signals, uncaught exception); it is not
\* killed.
NextShutdown ==
  \/ Connect(1)
  \/ ReqData(1)
  \/ \E p \in Payloads : ReqEnd(1, p)
  \/ GetCells
  \/ TimerFire
  \/ SaveOpen
  \/ SaveWrite
  \/ SaveWriteFail
  \/ SaveRename
  \/ SaveRenameFail
  \/ Respond
  \/ Shutdown
  \/ Uncaught
  \/ ProcessExit
  \/ Start

SpecShutdown == Init /\ [][NextShutdown]_vars

\* The simulation engine alone: paints into the Grid Store and the two ticks,
\* each a single logical operation.
NextNPC ==
  \/ \E c \in Coords, color \in Colors : ApplyCellPaint(c, color)
  \/ RunSpawnTick
  \/ RunMovementTick

\* The engine starts empty, next to a server that found no celdas.json.
InitNPC == Init /\ fs[DATA_FILE] = Absent

SpecNPC == InitNPC /\ [][NextNPC]_vars

\* ======================================================== the claims
SavePcs == {"save_open", "save_write", "save_rename"}

\* What GET /celdas answers in the current state.
CellsView == JSONstringify(celdas).v

IsPrefix(a, b) == Len(a) <= Len(b) /\ SubSeq(b, 1, Len(a)) = a

\* A payload that is a PaintCell(x, y, color) of the interface: x and y
\* integers, color a non-empty string.
IsInteger(v) == v \in {"0", "1"}
IsNonEmptyString(v) == v \in {"s:red", "s:white", "s:a"}
IsPaintCell(p) ==
  /\ PayloadText(p).t = "obj"
  /\ LET d == ParseObj(PayloadText(p).v[1]) IN
       IsInteger(d.x) /\ IsInteger(d.y) /\ IsNonEmptyString(d.color)

\* C1: what GET /celdas returns holds at most one record per coordinate
\* (x, y): a repaint replaces the color and adds no second record.
C1_OneCellPerCoordinate ==
  resp.kind = "get" =>
    \A i, j \in 1..Len(CellsView) :
      (CellsView[i].x = CellsView[j].x /\ CellsView[i].y = CellsView[j].y) => i = j

\* C2: celdas.json never holds a partial write; whenever it changes it
\* becomes the complete serialization of celdas as it was when that
\* saveCeldas was entered; no step before the rename, and no kill of the
\* process at any step, changes it.
C2_AtomicSave ==
  /\ [](fs[DATA_FILE].t # "torn")
  /\ [][fs'[DATA_FILE] # fs[DATA_FILE] =>
          (pc = "save_rename" /\ saveStart.t # "absent" /\ fs'[DATA_FILE] = saveStart)]_vars
  /\ [][(pc' = "down" \/ pc \in {"save_open", "save_write"}) =>
          fs'[DATA_FILE] = fs[DATA_FILE]]_vars

\* C2 witness: the process was killed in the middle of writeFileSync (the
\* temporary file is partial) and celdas.json still holds the list committed
\* by an earlier save.
C2_Witness ==
  /\ pc = "down"
  /\ fs[TEMP_DATA_FILE].t = "torn"
  /\ fs[DATA_FILE].t = "arr" /\ Len(fs[DATA_FILE].v) >= 1
  /\ fs[DATA_FILE].v[1].color = "s:red"

\* C3: while no fs call of saveCeldas has thrown, every record of the last
\* 200 answer is in celdas.json, in every state (also mid-handler and with
\* the process down); between handlers celdas.json equals the serialization
\* of celdas, so celdas as loaded by a restarted process holds those records.
C3_AckedIsDurable ==
  (~everFailed /\ acked.v # <<>>) =>
    /\ fs[DATA_FILE].t = "arr"
    /\ IsPrefix(acked.v, fs[DATA_FILE].v)
    /\ pc = "idle" => (fs[DATA_FILE] = JSONstringify(celdas) /\ IsPrefix(acked.v, CellsView))

\* C3 witness: a restarted process has just run loadCeldas and serves the
\* two records acknowledged before the kill.
C3_Witness ==
  /\ pc = "idle" /\ log = "loaded" /\ ~everFailed
  /\ Len(acked.v) = 2 /\ CellsView = acked.v

\* C4: right after a saveCeldas that succeeded, loadCeldas in a fresh
\* process (celdas = []) reproduces the array the save was given.
C4_RoundTrip ==
  log = "saved" => LoadCeldas(fs, Arr(<<>>)) = celdas

\* C5: right after loadCeldas, when celdas.json is missing or does not hold
\* an array of cells, celdas is the empty array.
C5_LoadNeverFatal ==
  (pc = "idle" /\ log \in {"loaded", "load_error", "no_file"} /\ fs[DATA_FILE].t # "arr")
    => celdas = Arr(<<>>)

\* C6: POST /save-cell answers 200 only to a payload whose x and y are
\* integers and whose color is a non-empty string, and 400 to every other.
C6_Validation ==
  resp.kind = "paint" =>
    /\ resp.st = 200 => IsPaintCell(resp.p)
    /\ ~IsPaintCell(resp.p) => resp.st = 400

\* C7: a step that answers a POST /save-cell with 400 leaves celdas and
\* both files as they were and does not enter saveCeldas.
C7_RejectLeavesWorld ==
  [][(resp'.kind = "paint" /\ resp'.st = 400) =>
       (celdas' = celdas /\ fs' = fs /\ pc = "idle" /\ pc' = "idle")]_vars

\* C7 witness: a request was just answered 400 while celdas holds a record.
C7_Witness ==
  /\ resp.kind = "paint" /\ resp.st = 400
  /\ celdas.t = "arr" /\ Len(celdas.v) >= 1

\* C8: a saveCeldas whose write or rename throws leaves celdas and
\* celdas.json as they were and the process serving (unless the save was one
\* of a process that is ending itself); no step before the rename touches
\* celdas.json; a saveCeldas that succeeds leaves celdas.json equal to the
\* serialization of the current celdas.
C8_WriteFailureRecoverable ==
  /\ [][log' = "save_error" =>
          (/\ celdas' = celdas /\ fs'[DATA_FILE] = fs[DATA_FILE]
           /\ (pc' \in {"idle", "respond"}
               \/ caller \in {"shutdown", "uncaught", "exit"}))]_vars
  /\ [][(pc \in {"save_open", "save_write"} /\ pc' # "down") =>
          (celdas' = celdas /\ fs'[DATA_FILE] = fs[DATA_FILE])]_vars
  /\ [][log' = "saved" => fs'[DATA_FILE] = JSONstringify(celdas')]_vars

\* C8 witness: after some save has failed, a save has just succeeded and
\* celdas.json holds the two records of celdas.
C8_Witness ==
  /\ log = "saved" /\ everFailed
  /\ Len(celdas.v) = 2 /\ fs[DATA_FILE] = JSONstringify(celdas)

\* C9: a PaintCell answered while another request is in flight is answered
\* 200 and its cell is in what GET /celdas returns.
C9_NoLostUpdates ==
  (resp.kind = "paint" /\ IsPaintCell(resp.p) /\ \E c \in Conns : req[c] \in {"head", "all"})
    => (resp.st = 200 /\ \E i \in 1..Len(CellsView) : CellsView[i] = PayloadText(resp.p).v[1])

\* C10: paints take effect in the order of their 'end' events (each one
\* appends its record behind all earlier ones, which keep their place);
\* a timer save never runs while a paint is half done; a save writes the
\* array as it is, and while a handler runs nothing else changes celdas or
\* any request body.
C10_ArrivalOrderAtomic ==
  /\ [][(pc = "idle" /\ pc' \in SavePcs /\ caller' = "paint") =>
          celdas'.v = Append(celdas.v, ParseObj(PayloadText(cur'.p).v[1]))]_vars
  /\ [](caller = "timer" => (cur = NoCur /\ pc \in SavePcs))
  /\ [](pc \in SavePcs => saveStart = JSONstringify(celdas))
  /\ [][(pc \in SavePcs \cup {"respond"} /\ pc' # "down") =>
          (celdas' = celdas /\ body' = body)]_vars

\* C10 witness: the timer's save is about to rename while one request has
\* sent half of its body and two paints have already been applied.
C10_Witness ==
  /\ pc = "save_rename" /\ caller = "timer"
  /\ \E c \in Conns : req[c] = "head"
  /\ Len(celdas.v) = 2

\* The process is ending itself: from the signal or the uncaught exception
\* until a new process is started.
ShuttingDown == shutStart.t # "absent"

\* C11: once a graceful shutdown (SIGINT, SIGTERM) has begun the periodic
\* save is unscheduled and never runs again, control never returns to the
\* event loop, memory is not changed, a final save is carried out before the
\* process ends, and if that final save succeeded the durable record of the
\* exited process is the serialization of the list as it was when the
\* shutdown began.
C11_ShutdownFlush ==
  /\ [][(pc = "idle" /\ caller' = "shutdown")
          => (~timer' /\ shutStart' = JSONstringify(celdas)
              /\ celdas' = celdas /\ pc' = "save_open")]_vars
  /\ [](ShuttingDown => (pc \in SavePcs \cup {"exiting", "exited"}
                          /\ caller \in {"shutdown", "uncaught", "exit", "none"}))
  /\ [][(ShuttingDown /\ ShuttingDown') => (timer' => timer)]_vars
  /\ []((ShuttingDown /\ pc # "exited") => JSONstringify(celdas) = shutStart)
  /\ [](pc = "exiting" => (ShuttingDown /\ log \in {"saved", "save_error"}))
  /\ []((pc = "exiting" /\ log = "saved") => fs[DATA_FILE] = shutStart)
  /\ [][pc = "exiting" => fs' = fs]_vars

C11_Witness ==
  /\ pc = "exiting" /\ ~timer /\ log = "saved" /\ everFailed
  /\ shutStart.t = "arr" /\ Len(shutStart.v) = 2
  /\ fs[DATA_FILE] = shutStart
  /\ fs[TEMP_DATA_FILE].t = "absent"

\* The coordinates that have a record in a response body of GET /celdas.
CoordsOf(text) ==
  IF text.t = "arr" THEN {<<text.v[i].x, text.v[i].y>> : i \in 1..Len(text.v)} ELSE {}

Alive(p) == p \notin {"down", "exited"}

\* C12: within a process lifetime no step (paint, rejected paint, read,
\* periodic save, failed save) removes a coordinate from what GET /celdas
\* returns, and every record stored stays at its place in the list.
C12_CellsNeverDeleted ==
  [][(Alive(pc) /\ Alive(pc')) =>
       (/\ CoordsOf(GetBody(celdas)) \subseteq CoordsOf(GetBody(celdas'))
        /\ celdas.t = "arr" => IsPrefix(GetBody(celdas).v, GetBody(celdas').v))]_vars

\* C12 witness: two records are stored, a save has failed and a paint has
\* just been rejected.
C12_Witness ==
  /\ resp.kind = "paint" /\ resp.st = 400 /\ everFailed
  /\ Cardinality(CoordsOf(GetBody(celdas))) = 2

\* A blank colour of the spec (the one the payloads use).
IsBlank(color) == color = "s:white"

\* C13: GET /celdas answers 200 with every stored record, blank or painted,
\* in list order, and the step changes neither celdas nor a file, starts no
\* save and writes no log line.
C13_GetCellsReadOnly ==
  /\ [](resp.kind = "get" =>
          /\ resp.st = 200 /\ resp.b.t = celdas.t
          /\ Len(resp.b.v) = Len(celdas.v)
          /\ \A i \in 1..Len(celdas.v) : resp.b.v[i] = StringifyObj(celdas.v[i]))
  /\ [][resp'.kind = "get" =>
          (/\ celdas' = celdas /\ fs' = fs
           /\ pc = "idle" /\ pc' = "idle" /\ caller' = caller
           /\ saveStart' = saveStart /\ log' = "")]_vars

\* C13 witness: the list just returned holds a blank and a painted record.
C13_Witness ==
  /\ resp.kind = "get" /\ Len(resp.b.v) = 2
  /\ IsBlank(resp.b.v[1].color) /\ ~IsBlank(resp.b.v[2].color)
  /\ resp.b.v[2].color = "s:red"

NpcIds(ns) == {ns[i].id : i \in 1..Len(ns)}
NpcPos(n) == <<n.x, n.y>>

\* C14: a spawn tick leaves the Grid Store alone; with no painted cell it
\* leaves the NPCs as they are, else it appends exactly one NPC, whose id no
\* earlier NPC has and whose position is a currently painted cell.
C14_SpawnTick ==
  [][tick' = "spawn" =>
       /\ grid' = grid
       /\ IF \A c \in Coords : grid[c] = NoCell \/ ~IsPainted(grid[c])
          THEN npcs' = npcs
          ELSE /\ Len(npcs') = Len(npcs) + 1
               /\ SubSeq(npcs', 1, Len(npcs)) = npcs
               /\ npcs'[Len(npcs')].id \notin NpcIds(npcs)
               /\ grid[NpcPos(npcs'[Len(npcs')])] # NoCell
               /\ IsPainted(grid[NpcPos(npcs'[Len(npcs')])])]_vars

\* C14 witness: a spawn tick has just added a second NPC while the Grid
\* Store holds a blank cell next to painted ones.
C14_Witness ==
  /\ tick = "spawn" /\ Len(npcs) = 2
  /\ \E c \in Coords : grid[c] = " White "
  /\ \E c \in Coords : grid[c] = "red"

\* C15: a movement tick keeps the Grid Store, the number of NPCs and their
\* ids; every NPC that had a painted 4-neighbor is on one of them, every
\* NPC that had none is where it was.
C15_MovementTick ==
  [][tick' = "move" =>
       /\ grid' = grid
       /\ Len(npcs') = Len(npcs)
       /\ \A i \in 1..Len(npcs) :
            LET n == npcs[i]
                near == {c \in Coords :
                           /\ grid[c] # NoCell /\ IsPainted(grid[c])
                           /\ \/ (c[1] = n.x + 1 /\ c[2] = n.y)
                              \/ (c[1] + 1 = n.x /\ c[2] = n.y)
                              \/ (c[1] = n.x /\ c[2] = n.y + 1)
                              \/ (c[1] = n.x /\ c[2] + 1 = n.y)}
            IN /\ npcs'[i].id = n.id
               /\ near # {} => NpcPos(npcs'[i]) \in near
               /\ near = {} => NpcPos(npcs'[i]) = NpcPos(n)]_vars

\* C15 witness: a movement tick has just moved two NPCs, each to its only
\* painted neighbor, while a third cell is blank.
C15_Witness ==
  /\ tick = "move" /\ Len(npcs) = 2
  /\ NpcPos(npcs[1]) # NpcPos(npcs[2])
  /\ grid[NpcPos(npcs[1])] = "red" /\ grid[NpcPos(npcs[2])] = "red"
  /\ PaintedNeighbors(grid, npcs[1].x, npcs[1].y) = <<NpcPos(npcs[2])>>
  /\ \E c \in Coords : grid[c] = " White "

\* C16: NPC ids are pairwise distinct; no step removes an NPC or changes
\* an id; whenever an NPC is added or changes position, its new position
\* holds a painted cell at that time.
C16_NpcInvariants ==
  /\ [](\A i, j \in 1..Len(npcs) : npcs[i].id = npcs[j].id => i = j)
  /\ [][/\ Len(npcs') >= Len(npcs)
         /\ \A i \in 1..Len(npcs) : npcs'[i].id = npcs[i].id]_vars
  /\ [][\A i \in 1..Len(npcs') :
           (i > Len(npcs) \/ NpcPos(npcs'[i]) # NpcPos(npcs[i]))
             => (grid'[NpcPos(npcs'[i])] # NoCell
                 /\ IsPainted(grid'[NpcPos(npcs'[i])]))]_vars

\* C16 witness: two NPCs, one of them on a cell that was repainted blank
\* after it arrived.
C16_Witness ==
  /\ tick = "paint" /\ Len(npcs) = 2
  /\ grid[NpcPos(npcs[1])] = " White "
  /\ grid[NpcPos(npcs[2])] = "red"
  /\ NpcPos(npcs[1]) # NpcPos(npcs[2])

\* C17: an accepted POST /save-cell appends exactly one record, the parsed
\* payload, behind the records stored before, which keep content and order;
\* the 200 that answers it carries the whole updated list, the payload last.
C17_AppendExactlyOne ==
  /\ [][(pc = "idle" /\ caller' = "paint") =>
          (/\ celdas.t = "arr" /\ celdas'.t = "arr"
           /\ Len(celdas'.v) = Len(celdas.v) + 1
           /\ SubSeq(celdas'.v, 1, Len(celdas.v)) = celdas.v
           /\ celdas'.v[Len(celdas'.v)] = ParseObj(PayloadText(cur'.p).v[1]))]_vars
  /\ []((resp.kind = "paint" /\ resp.st = 200) =>
          (/\ resp.b.t = "arr" /\ Len(resp.b.v) = Len(celdas.v)
           /\ \A i \in 1..Len(celdas.v) : resp.b.v[i] = StringifyObj(celdas.v[i])
           /\ Len(celdas.v) >= 1
           /\ celdas.v[Len(celdas.v)] = ParseObj(PayloadText(resp.p).v[1])))

\* C17 witness: the 200 for the cell (1,0) carries two records, the blank
\* cell stored before it first.
C17_Witness ==
  /\ resp.kind = "paint" /\ resp.st = 200 /\ resp.p = "p10r"
  /\ Len(resp.b.v) = 2 /\ resp.b.v[1].color = "s:white"
  /\ resp.b.v[2] = PayloadText("p10r").v[1]

\* C18: celdas is a list and every record of it has x, y and color defined.
C18_WellFormed ==
  /\ celdas.t = "arr"
  /\ \A i \in 1..Len(celdas.v) :
       /\ celdas.v[i].x # "undefined"
       /\ celdas.v[i].y # "undefined"
       /\ celdas.v[i].color # "undefined"

====
